---------------------------- MODULE Spec2Model ----------------------------
(***************************************************************************)
(* Model of wsgenerator.py, the arithmetic worksheet generator.            *)
(*                                                                         *)
(* The program keeps no state of its own: every function is a pure         *)
(* function of its arguments and of the values the random source hands     *)
(* out.  The state of the model is therefore the call made on the idle     *)
(* module: which function (fn), with which arguments (args), which random  *)
(* stream it read (rnd) and what it returned or raised (ret).  twin is the *)
(* outcome of the same call on the same random stream with                 *)
(* limit_multiplication negated.                                           *)
(*                                                                         *)
(* Text is a sequence of tokens; a token is a string of one or more        *)
(* characters, so that slicing by characters can be followed exactly.      *)
(***************************************************************************)
EXTENDS Integers, Sequences, FiniteSets, TLC

VARIABLES fn, args, rnd, ret, twin

vars == <<fn, args, rnd, ret, twin>>

---------------------------------------------------------------------------
(* Bounds of the model *)

\* digit widths 1..MaxDigits
MaxDigits == 2
\* raw values the random source hands to randint: 0..MaxRaw
MaxRaw == 13
\* raw values the random source hands to the divisor's random.choice
MaxPick == 5
\* find_factors is called directly on 0..MaxN
MaxN == 16
\* num_to_latex is called directly on 0..MaxNum
MaxNum == 1010
\* a worksheet reads a cyclic random stream of TapeLen raw values in 0..TapeMax
TapeLen == 2
TapeMax == 3

(* Constants of the program *)

problems_per_row == 4
num_rows == 5
TimesTableMax == 12

---------------------------------------------------------------------------
(* Text helpers *)

RECURSIVE Concat(_)
\* the concatenation of a sequence of texts
Concat(ss) == IF ss = <<>> THEN <<>> ELSE Head(ss) \o Concat(Tail(ss))

RECURSIVE Join(_, _)
\* sep.join(items), items a sequence of tokens
Join(sep, items) ==
    IF Len(items) <= 1 THEN items
    ELSE <<Head(items), sep>> \o Join(sep, Tail(items))

RECURSIVE Repeat(_, _)
\* "".join([tok for _ in range(k)]): range of a non-positive k is empty
Repeat(tok, k) == IF k <= 0 THEN <<>> ELSE <<tok>> \o Repeat(tok, k - 1)

RECURSIVE DropLastChars(_, _)
\* text[:-k] for k > 0, by characters: whole trailing tokens go, and a token
\* the cut falls into keeps its leading characters
DropLastChars(text, k) ==
    IF k = 0 \/ text = <<>> THEN text
    ELSE LET last == text[Len(text)]
             front == SubSeq(text, 1, Len(text) - 1)
         IN  IF Len(last) <= k THEN DropLastChars(front, k - Len(last))
             ELSE front \o <<SubSeq(last, 1, Len(last) - k)>>

DigitChar(d) ==
    CASE d = 0 -> "0" [] d = 1 -> "1" [] d = 2 -> "2" [] d = 3 -> "3"
      [] d = 4 -> "4" [] d = 5 -> "5" [] d = 6 -> "6" [] d = 7 -> "7"
      [] d = 8 -> "8" [] d = 9 -> "9"

RECURSIVE Str(_)
\* str(num) for num >= 0, one token per character
Str(num) ==
    IF num < 10 THEN <<DigitChar(num)>>
    ELSE Str(num \div 10) \o <<DigitChar(num % 10)>>

RECURSIVE Pow10(_)
Pow10(k) == IF k = 0 THEN 1 ELSE 10 * Pow10(k - 1)

\* int(n**0.5) for n >= 0
Isqrt(n) == CHOOSE k \in 0..n : k * k <= n /\ (k + 1) * (k + 1) > n

Range(s) == {s[i] : i \in 1..Len(s)}

RECURSIVE SetToList(_)
\* list(S): the elements of S, each once (ascending)
SetToList(S) ==
    IF S = {} THEN <<>>
    ELSE LET m == CHOOSE x \in S : \A y \in S : x <= y
         IN  <<m>> \o SetToList(S \ {m})

---------------------------------------------------------------------------
(* The random source: a stream of raw values, read cyclically *)

\* the k-th raw value of the stream (k >= 1)
RandAt(stream, k) == stream[((k - 1) % Len(stream)) + 1]

\* random.randint(a, b) on raw value raw
randint(a, b, raw) == a + (raw % (b - a + 1))

\* random.choice(seq) on raw value raw, seq not empty
choice(seq, raw) == seq[1 + (raw % Len(seq))]

---------------------------------------------------------------------------
(* find_factors *)

RECURSIVE FactorPairs(_, _)
\* [[i, n//i] for i in range(from, int(n**0.5) + 1) if n % i == 0]
FactorPairs(n, from) ==
    IF from > Isqrt(n) THEN <<>>
    ELSE (IF n % from = 0 THEN <<(<<from, n \div from>>)>> ELSE <<>>)
         \o FactorPairs(n, from + 1)

\* a find_factors that forgets set(): the concatenated pairs as they are
find_factors_nodedup(n) ==
    LET pairs == FactorPairs(n, 1)
    IN  IF pairs = <<>> THEN [status |-> "TypeError", value |-> <<>>]
        ELSE [status |-> "ok", value |-> Concat(pairs)]

\* find_factors(n), n >= 0.  reduce(list.__add__, ...) of no pairs at all
\* raises TypeError; list(set(...)) holds each factor once, in an order the
\* callers do not rely on (ascending here)
find_factors(n) ==
    LET pairs == FactorPairs(n, 1)
    IN  IF pairs = <<>> THEN [status |-> "TypeError", value |-> <<>>]
        ELSE [status |-> "ok", value |-> SetToList(Range(Concat(pairs)))]

---------------------------------------------------------------------------
(* num_to_latex *)

PhantomIfX(digit) == IF digit # "x" THEN digit ELSE "\\phantom{0}"

\* a num_to_latex that pads with the digit 0
num_to_latex_zeropad(num_digits, num) ==
    LET num_string == Str(num)
        padding == Repeat("0", num_digits - Len(num_string))
        padded == padding \o num_string
    IN  Join("\\,", [i \in 1..Len(padded) |-> PhantomIfX(padded[i])])

num_to_latex(num_digits, num) ==
    LET num_string == Str(num)
        padding == Repeat("x", num_digits - Len(num_string))
        padded == padding \o num_string
    IN  Join("\\,", [i \in 1..Len(padded) |-> PhantomIfX(padded[i])])

---------------------------------------------------------------------------
(* operation_to_latex *)

AddAliases == {"add", "addition", "plus"}
SubAliases == {"sub", "subtract", "subtraction", "minus"}
MulAliases == {"multiply", "multiplication", "times", "x"}
DivAliases == {"div", "divide", "division", "\\"}

\* an operation_to_latex whose multiplication symbol lost its name
operation_to_latex_cut(operation) ==
    IF operation \in AddAliases THEN "+"
    ELSE IF operation \in SubAliases THEN "-"
    ELSE IF operation \in MulAliases THEN "\\"
    ELSE IF operation \in DivAliases THEN "\\div"
    ELSE operation

operation_to_latex(operation) ==
    IF operation \in AddAliases THEN "+"
    ELSE IF operation \in SubAliases THEN "-"
    ELSE IF operation \in MulAliases THEN "\\times"
    ELSE IF operation \in DivAliases THEN "\\div"
    ELSE operation

---------------------------------------------------------------------------
(* create_problem_latex *)

create_problem_latex(num_digits, operation, num1, num2) ==
    LET num1_latex == num_to_latex(num_digits, num1)
        num2_latex == num_to_latex(num_digits, num2)
        op == operation_to_latex(operation)
    IN  <<"\\begin{myequation}", "\n",
          "    ", "\\begin{array}{r}", "\n",
          "        ">> \o num1_latex \o <<" ", "\\\\", "\n",
          "        ", op, "\\phantom{0}">> \o num2_latex \o <<" ", "\\\\", "\n",
          "        ", "\\hline", "\\\\", "\n",
          "        ", "\\hline", "\n",
          "    ", "\\end{array}", "\n",
          "\\end{myequation}">>

---------------------------------------------------------------------------
(* create_random_problem_latex, statement by statement.  A generation in  *)
(* progress is a record st: the operands so far, the number of raw values *)
(* read from the random stream so far (pos), and whether it raised.       *)

\* lines 103-105 with the condition the docstring describes
LimitMultiplication_documented(operation, limit_multiplication, stream, st) ==
    IF operation = "\\times" /\ limit_multiplication
    THEN [st EXCEPT !.num1 = randint(0, TimesTableMax, RandAt(stream, st.pos + 1)),
                    !.num2 = randint(0, TimesTableMax, RandAt(stream, st.pos + 2)),
                    !.pos = st.pos + 2]
    ELSE st

\* lines 103-105: the times-table draw, under the condition as written
LimitMultiplication(operation, limit_multiplication, stream, st) ==
    IF operation = "-" /\ operation = "\\times"
    THEN [st EXCEPT !.num1 = randint(0, TimesTableMax, RandAt(stream, st.pos + 1)),
                    !.num2 = randint(0, TimesTableMax, RandAt(stream, st.pos + 2)),
                    !.pos = st.pos + 2]
    ELSE st

\* lines 107-109 without the swap
SwapForSubtract_noswap(operation, st) == st

\* lines 107-109: no negative differences
SwapForSubtract(operation, st) ==
    IF operation = "-"
    THEN IF st.num1 < st.num2
         THEN [st EXCEPT !.num1 = st.num2, !.num2 = st.num1]
         ELSE st
    ELSE st

\* lines 111-116 with the dividend left as first drawn
DivideOperands_keepnum1(operation, max_num, stream, st) ==
    IF operation = "\\div"
    THEN LET quotient == randint(0, max_num, RandAt(stream, st.pos + 1))
             factors == find_factors(quotient)
         IN  IF factors.status # "ok"
             THEN [st EXCEPT !.status = factors.status, !.pos = st.pos + 1]
             ELSE [st EXCEPT !.num2 = choice(factors.value, RandAt(stream, st.pos + 2)),
                             !.pos = st.pos + 2]
    ELSE st

\* lines 111-116: quotient and one of its factors replace the operands;
\* an exception of find_factors ends the generation
DivideOperands(operation, max_num, stream, st) ==
    IF operation = "\\div"
    THEN LET quotient == randint(0, max_num, RandAt(stream, st.pos + 1))
             factors == find_factors(quotient)
         IN  IF factors.status # "ok"
             THEN [st EXCEPT !.status = factors.status, !.pos = st.pos + 1]
             ELSE [st EXCEPT !.num1 = quotient,
                             !.num2 = choice(factors.value, RandAt(stream, st.pos + 2)),
                             !.pos = st.pos + 2]
    ELSE st

\* create_random_problem_latex, reading the stream after its first pos values
create_random_problem_latex(num_digits, included_operations, limit_multiplication, stream, pos) ==
    LET operation == operation_to_latex(choice(included_operations, RandAt(stream, pos + 1)))
        max_num == Pow10(num_digits) - 1
        drawn == [status |-> "ok",
                  num1 |-> randint(0, max_num, RandAt(stream, pos + 2)),
                  num2 |-> randint(0, max_num, RandAt(stream, pos + 3)),
                  pos |-> pos + 3]
        limited == LimitMultiplication(operation, limit_multiplication, stream, drawn)
        swapped == SwapForSubtract(operation, limited)
        st == DivideOperands(operation, max_num, stream, swapped)
    IN  [status |-> st.status,
         operation |-> operation,
         num1 |-> st.num1,
         num2 |-> st.num2,
         pos |-> st.pos,
         value |-> IF st.status = "ok"
                   THEN create_problem_latex(num_digits, operation, st.num1, st.num2)
                   ELSE <<>>]

---------------------------------------------------------------------------
(* create_worksheet_latex.  A worksheet in progress is a record ws: the   *)
(* text so far (value), count, the raw values read so far (pos), and      *)
(* whether a problem generation raised.                                   *)

RECURSIVE ProblemsLoop(_, _, _, _, _, _)
\* lines 136-139: the remaining iterations of for j in range(problems_per_row)
ProblemsLoop(num_digits, included_operations, limit_multiplication, stream, ws, left) ==
    IF left = 0 \/ ws.status # "ok" THEN ws
    ELSE LET problem == create_random_problem_latex(
                 num_digits, included_operations, limit_multiplication, stream, ws.pos)
             next == [status |-> problem.status,
                      value |-> IF problem.status = "ok"
                                THEN ws.value \o problem.value \o <<"&", "\n">>
                                ELSE <<>>,
                      count |-> ws.count + 1,
                      pos |-> problem.pos]
         IN  ProblemsLoop(num_digits, included_operations, limit_multiplication,
                          stream, next, left - 1)

\* line 140 cutting the newline only
RemoveAlignment_one(worksheet_latex) == DropLastChars(worksheet_latex, 1)

\* line 140: worksheet_latex[:-2]
RemoveAlignment(worksheet_latex) == DropLastChars(worksheet_latex, 2)

RECURSIVE RowsLoop(_, _, _, _, _, _)
\* lines 135-141: the remaining iterations of for _ in range(num_rows)
RowsLoop(num_digits, included_operations, limit_multiplication, stream, ws, left) ==
    IF left = 0 \/ ws.status # "ok" THEN ws
    ELSE LET row == ProblemsLoop(num_digits, included_operations,
                                 limit_multiplication, stream, ws, problems_per_row)
             next == IF row.status # "ok" THEN row
                     ELSE [row EXCEPT !.value =
                              RemoveAlignment(row.value) \o <<"\\\\", " ", "\n">>]
         IN  RowsLoop(num_digits, included_operations, limit_multiplication,
                      stream, next, left - 1)

create_worksheet_latex(num_digits, included_operations, limit_multiplication, stream) ==
    RowsLoop(num_digits, included_operations, limit_multiplication, stream,
             [status |-> "ok", value |-> <<>>, count |-> 0, pos |-> 0], num_rows)

---------------------------------------------------------------------------
(* The calls made on the module *)

CanonicalSymbols == {"+", "-", "\\times", "\\div"}

\* tokens operation_to_latex is called on: every alias, every canonical
\* symbol, and tokens that match no alias
Tokens ==
    AddAliases \cup SubAliases \cup MulAliases \cup DivAliases \cup CanonicalSymbols
    \cup {"", "Add", "PLUS", "X", "*", "/", "&", "mod"}

\* the lists of included operations the generator is called with: the
\* default, one alias of each operation, and a pre-resolved symbol
OpLists ==
    { <<"+", "-">>,
      <<"add", "sub", "multiply", "div">>,
      <<"\\times">> }

\* what the state holds while no call is made; a call fills in the arguments
\* it takes and the parts of the outcome it has
NoArgs ==
    [n |-> 0, num_digits |-> 0, num |-> 0, operation |-> "",
     included_operations |-> <<>>, limit_multiplication |-> FALSE]

NoCall ==
    [status |-> "none", value |-> <<>>, factors |-> <<>>, operation |-> "",
     num1 |-> 0, num2 |-> 0, pos |-> 0, count |-> 0]

\* the outcome of a problem generation p, as the state holds it
ProblemOutcome(p) ==
    [NoCall EXCEPT !.status = p.status, !.value = p.value,
                   !.operation = p.operation, !.num1 = p.num1,
                   !.num2 = p.num2, !.pos = p.pos]

\* the outcome of a worksheet generation ws, as the state holds it
WorksheetOutcome(ws) ==
    [NoCall EXCEPT !.status = ws.status, !.value = ws.value,
                   !.count = ws.count, !.pos = ws.pos]

Init ==
    /\ fn = "none"
    /\ args = NoArgs
    /\ rnd = <<>>
    /\ ret = NoCall
    /\ twin = NoCall

CallFindFactors ==
    /\ fn = "none"
    /\ \E n \in 0..MaxN :
        /\ fn' = "find_factors"
        /\ args' = [NoArgs EXCEPT !.n = n]
        /\ rnd' = <<>>
        /\ ret' = LET r == find_factors(n)
                  IN  [NoCall EXCEPT !.status = r.status, !.factors = r.value]
        /\ twin' = NoCall

CallNumToLatex ==
    /\ fn = "none"
    /\ \E num_digits \in 1..MaxDigits, num \in 0..MaxNum :
        /\ fn' = "num_to_latex"
        /\ args' = [NoArgs EXCEPT !.num_digits = num_digits, !.num = num]
        /\ rnd' = <<>>
        /\ ret' = [NoCall EXCEPT !.status = "ok",
                                 !.value = num_to_latex(num_digits, num)]
        /\ twin' = NoCall

CallOperationToLatex ==
    /\ fn = "none"
    /\ \E operation \in Tokens :
        /\ fn' = "operation_to_latex"
        /\ args' = [NoArgs EXCEPT !.operation = operation]
        /\ rnd' = <<>>
        /\ ret' = [NoCall EXCEPT !.status = "ok",
                                 !.operation = operation_to_latex(operation)]
        /\ twin' = NoCall

\* the raw values one problem generation reads: the operation pick, the two
\* operand draws, and for a division the quotient draw and the divisor pick
ProblemStreams(included_operations) ==
    UNION { IF operation_to_latex(included_operations[c + 1]) = "\\div"
            THEN { <<c, r2, r3, r4, r5>> :
                       r2 \in 0..MaxRaw, r3 \in 0..MaxRaw,
                       r4 \in 0..MaxRaw, r5 \in 0..MaxPick }
            ELSE { <<c, r2, r3>> : r2 \in 0..MaxRaw, r3 \in 0..MaxRaw }
          : c \in 0..(Len(included_operations) - 1) }

CallCreateRandomProblemLatex ==
    /\ fn = "none"
    /\ \E num_digits \in 1..MaxDigits, included_operations \in OpLists,
       limit_multiplication \in BOOLEAN :
        \E stream \in ProblemStreams(included_operations) :
            /\ fn' = "create_random_problem_latex"
            /\ args' = [NoArgs EXCEPT !.num_digits = num_digits,
                                       !.included_operations = included_operations,
                                       !.limit_multiplication = limit_multiplication]
            /\ rnd' = stream
            /\ ret' = ProblemOutcome(create_random_problem_latex(
                          num_digits, included_operations, limit_multiplication, stream, 0))
            /\ twin' = ProblemOutcome(create_random_problem_latex(
                          num_digits, included_operations, ~limit_multiplication, stream, 0))

CallCreateWorksheetLatex ==
    /\ fn = "none"
    /\ \E num_digits \in 1..MaxDigits, included_operations \in OpLists,
       limit_multiplication \in BOOLEAN :
        \E stream \in [1..TapeLen -> 0..TapeMax] :
            /\ fn' = "create_worksheet_latex"
            /\ args' = [NoArgs EXCEPT !.num_digits = num_digits,
                                       !.included_operations = included_operations,
                                       !.limit_multiplication = limit_multiplication]
            /\ rnd' = stream
            /\ ret' = WorksheetOutcome(create_worksheet_latex(
                          num_digits, included_operations, limit_multiplication, stream))
            /\ twin' = WorksheetOutcome(create_worksheet_latex(
                          num_digits, included_operations, ~limit_multiplication, stream))

\* the caller takes the outcome; the module is idle again
Return ==
    /\ fn # "none"
    /\ fn' = "none"
    /\ args' = NoArgs
    /\ rnd' = <<>>
    /\ ret' = NoCall
    /\ twin' = NoCall

Next ==
    \/ CallFindFactors
    \/ CallNumToLatex
    \/ CallOperationToLatex
    \/ CallCreateRandomProblemLatex
    \/ CallCreateWorksheetLatex
    \/ Return

Spec == Init /\ [][Next]_vars

---------------------------------------------------------------------------
(* Vocabulary of the properties *)

IsProblem == fn = "create_random_problem_latex"
IsWorksheet == fn = "create_worksheet_latex"

\* 10^num_digits - 1 of the call in the state
MaxOperand == Pow10(args.num_digits) - 1

\* the two operand draws of the problem generation in the state
Draw1 == randint(0, MaxOperand, rnd[2])
Draw2 == randint(0, MaxOperand, rnd[3])

Max2(a, b) == IF a >= b THEN a ELSE b
Min2(a, b) == IF a <= b THEN a ELSE b

Divisors(n) == {d \in 1..n : n % d = 0}

\* the number of decimal digits of x >= 0
DecimalLength(x) == CHOOSE k \in 1..(x + 1) : x < Pow10(k) /\ (k = 1 \/ x >= Pow10(k - 1))

\* the i-th decimal digit of x from the left, as a character
DecimalDigit(x, i) == DigitChar((x \div Pow10(DecimalLength(x) - i)) % 10)

\* how often token tok occurs in text
Count(text, tok) == Cardinality({i \in 1..Len(text) : text[i] = tok})

\* the places where the row-break marker "\\\\ \n" starts in text
RowBreaks(text) ==
    {i \in 1..(Len(text) - 2) :
        text[i] = "\\\\" /\ text[i + 1] = " " /\ text[i + 2] = "\n"}

\* the tokens a problem block is made of, whatever its operands and operation
BlockTokens ==
    {"\\begin{myequation}", "\\end{myequation}", "\\begin{array}{r}", "\\end{array}",
     "\\hline", "\\\\", "\\phantom{0}", "\\,", "\n", " ", "    ", "        "}
    \cup CanonicalSymbols \cup {DigitChar(d) : d \in 0..9}

---------------------------------------------------------------------------
(* Properties *)

\* C1: a generated problem whose operation resolves to Multiply, with
\* limit_multiplication true, has both operands in [0, 12], whatever the
\* digit width.
C1_MultiplyWithinTimesTable ==
    (IsProblem /\ ret.status = "ok" /\ ret.operation = "\\times"
        /\ args.limit_multiplication)
    => (ret.num1 \in 0..12 /\ ret.num2 \in 0..12)

\* C2: create_worksheet_latex always finishes all 20 problem generations and
\* returns the grid text, never stopping early in an error.
C2_WorksheetAlwaysCompletes ==
    IsWorksheet => (ret.status = "ok" /\ ret.count = 20 /\ ret.value # <<>>)

\* C3: every problem produced for Divide has operand1 equal to the quotient
\* draw in [0, 10^w - 1], operand2 a nonzero member of find_factors(operand1),
\* and operand1 mod operand2 = 0.
C3_DivideOperands ==
    (IsProblem /\ ret.status = "ok" /\ ret.operation = "\\div")
    => /\ ret.num1 = randint(0, MaxOperand, rnd[4])
       /\ ret.num1 \in 0..MaxOperand
       /\ ret.num2 # 0
       /\ ret.num2 \in Range(find_factors(ret.num1).value)
       /\ ret.num2 \in Divisors(ret.num1)
       /\ ret.num1 % ret.num2 = 0

\* width 1, quotient draw 6, divisor pick 2: operand1 = 6, operand2 = 2
C3_Witness ==
    /\ IsProblem /\ ret.status = "ok" /\ ret.operation = "\\div"
    /\ args.num_digits = 1 /\ rnd[4] = 6
    /\ ret.num1 = 6 /\ ret.num2 = 2

\* C4: every problem generated for Subtract has operand1 >= operand2, the pair
\* being (max, min) of the two draws; for Add the operands are the two draws
\* in draw order.
C4_SubtractOrdered ==
    (IsProblem /\ ret.status = "ok")
    => /\ ret.operation = "-" =>
            /\ ret.num1 >= ret.num2
            /\ ret.num1 = Max2(Draw1, Draw2)
            /\ ret.num2 = Min2(Draw1, Draw2)
       /\ ret.operation = "+" =>
            /\ ret.num1 = Draw1
            /\ ret.num2 = Draw2

\* width 2, Subtract, draws (3, 7): operand1 = 7, operand2 = 3
C4_Witness ==
    /\ IsProblem /\ ret.status = "ok" /\ ret.operation = "-"
    /\ args.num_digits = 2 /\ Draw1 = 3 /\ Draw2 = 7
    /\ ret.num1 = 7 /\ ret.num2 = 3

C7_ResolveIdempotent ==
    fn = "operation_to_latex"
    => /\ operation_to_latex(ret.operation) = ret.operation
       /\ args.operation \in CanonicalSymbols => ret.operation = args.operation
       /\ args.operation \notin
              (AddAliases \cup SubAliases \cup MulAliases \cup DivAliases)
            => ret.operation = args.operation

\* the alias x, resolved to the multiplication symbol
C7_Witness ==
    /\ fn = "operation_to_latex"
    /\ args.operation = "x"
    /\ ret.operation = "\\times"

\* C8: for n >= 1, find_factors(n) returns, without duplicates, exactly the
\* positive integers d with n mod d = 0.
C8_FactorsExact ==
    (fn = "find_factors" /\ args.n >= 1)
    => /\ ret.status = "ok"
       /\ Range(ret.factors) = Divisors(args.n)
       /\ Len(ret.factors) = Cardinality(Divisors(args.n))
       /\ 1 \in Range(ret.factors)
       /\ args.n \in Range(ret.factors)

\* a perfect square: 16 with its square root 4 among the five factors
C8_Witness ==
    /\ fn = "find_factors" /\ args.n = 16
    /\ ret.status = "ok"
    /\ 4 \in Range(ret.factors)
    /\ Len(ret.factors) = 5

\* C9: for x of decimal length L <= w, num_to_latex(w, x) has exactly w digit
\* positions, the leftmost w - L of them blank-padding markers and the other
\* L the decimal digits of x in order; for L > w the output is exactly the L
\* digits of x.
C9_FormatWidth ==
    fn = "num_to_latex"
    => LET w == args.num_digits
           x == args.num
           L == DecimalLength(x)
           pad == IF L <= w THEN w - L ELSE 0
           positions == SelectSeq(ret.value, LAMBDA tok : tok # "\\,")
       IN  /\ ret.status = "ok"
           /\ Len(positions) = pad + L
           /\ L <= w => Len(positions) = w
           /\ \A i \in 1..pad : positions[i] = "\\phantom{0}"
           /\ \A i \in 1..L : positions[pad + i] = DecimalDigit(x, i)
           /\ Len(ret.value) = 2 * Len(positions) - 1
           /\ \A i \in 1..Len(ret.value) :
                 (i % 2 = 0) <=> (ret.value[i] = "\\,")

\* width 2, the number 7: one padding marker, then the digit 7
C9_Witness ==
    /\ fn = "num_to_latex"
    /\ args.num_digits = 2 /\ args.num = 7
    /\ ret.value = <<"\\phantom{0}", "\\,", "7">>

===========================================================================
